---- MODULE Spec2Model ----
(***************************************************************************)
(* Model of src/src/verilog_ir.rs: the netlist IR (VPort, VPortLoc, VConn, *)
(* VModule) and generate_module_decl, which resolves the connections of an *)
(* Internal module into wires, a port-to-wire map and assignments and      *)
(* writes the module declaration to a byte sink.                           *)
(*                                                                         *)
(* Strings are TLA+ strings, format!() is concatenation (\o), a usize is   *)
(* printed with ToString.  The sink is the sequence of lines written by    *)
(* genln!: each line is the indentation in force (the number of " " bytes  *)
(* written first) and the formatted text; the "\n" that genln! appends is  *)
(* implicit.  A panic is recorded with its message and ends the call.      *)
(***************************************************************************)
EXTENDS Integers, Sequences, FiniteSets, TLC

VARIABLES
    vmod,          \* the &VModule handed to the current (or next) call
    defs,          \* the caller's sink: lines written by the current call
    cur_tab,       \* the RefCell indentation counter of the call
    wires,         \* Vec<(String, usize)>
    port_to_wire,  \* IndexMap<VPortLoc, (String, usize)>, as ordered entries
    assigns,       \* Vec<(String, String)>
    pc,            \* the position of the call in generate_module_decl
    idx,           \* the position of the running for-loop
    panic,         \* <<>> or <<message>> of the panic that ended the call
    prev           \* <<>> or <<[vmod, defs, panic]>> of the last finished call

vars == <<vmod, defs, cur_tab, wires, port_to_wire, assigns, pc, idx, panic,
          prev>>

-----------------------------------------------------------------------------
(* Bounds of the model *)

MaxConns == 2

-----------------------------------------------------------------------------
(* The data model, lines 6-46 *)

None == <<>>
Some(x) == <<x>>

VPort(polarity, bits) == [polarity |-> polarity, bits |-> bits]

VPortLoc(mod_name, port_name) == [mod_name |-> mod_name, port_name |-> port_name]

VConn(src, dst, bits) == [src |-> src, dst |-> dst, bits |-> bits]

External(name, param, interfaces) ==
    [kind |-> "External", name |-> name, param |-> param,
     interfaces |-> interfaces, internals |-> <<>>, connections |-> <<>>]

Internal(name, interfaces, internals, connections) ==
    [kind |-> "Internal", name |-> name, param |-> 0,
     interfaces |-> interfaces, internals |-> internals,
     connections |-> connections]

get_name(m) ==
    CASE m.kind = "External" -> m.name
      [] m.kind = "Internal" -> m.name

get_interfaces(m) ==
    CASE m.kind = "External" -> m.interfaces
      [] m.kind = "Internal" -> m.interfaces

-----------------------------------------------------------------------------
(* Helpers of the emitter *)

RECURSIVE Join(_, _)
Join(strs, sep) ==
    IF Len(strs) = 0 THEN ""
    ELSE IF Len(strs) = 1 THEN strs[1]
    ELSE strs[1] \o sep \o Join(Tail(strs), sep)

\* genln!: cur_tab spaces, the formatted text, a newline
Genln(stream, tab, text) == Append(stream, [tab |-> tab, text |-> text])

\* mutant of BitWidth: the upper index is the width, not the width - 1
BitWidth_NoMinusOne(bits) ==
    IF bits > 1 THEN "[" \o ToString(bits) \o ":0]" ELSE ""

\* the bit-range of a port or wire declaration
BitWidth(bits) ==
    IF bits > 1 THEN "[" \o ToString(bits - 1) \o ":0]" ELSE ""

PortIo(port) == IF port.polarity = "Input" THEN "input" ELSE "output"

PortDeclText(name, port) ==
    PortIo(port) \o " " \o BitWidth(port.bits) \o " " \o name \o ";"

WireDeclText(wire) == "wire " \o BitWidth(wire[2]) \o " " \o wire[1] \o ";"

AssignText(a) == "assign " \o a[1] \o " = " \o a[2] \o ";"

\* mutant of HeaderArgs: the interface is walked in another order than it
\* was built in, as an unordered map would
HeaderArgs_Reversed(interfaces) ==
    Join([i \in 1..Len(interfaces) |->
             interfaces[Len(interfaces) + 1 - i][1]], ", ")

HeaderArgs(interfaces) ==
    Join([i \in 1..Len(interfaces) |-> interfaces[i][1]], ", ")

\* format!("{}_{}", mod_name, port_name)
WireName(mod_name, port_name) == mod_name \o "_" \o port_name

-----------------------------------------------------------------------------
(* IndexMap<VPortLoc, (String, usize)> as a sequence of <<key, value>> *)

MapKeys(m) == {m[i][1] : i \in 1..Len(m)}

MapHas(m, k) == k \in MapKeys(m)

MapGet(m, k) == (CHOOSE i \in 1..Len(m) : m[i][1] = k)

MapValue(m, k) == m[MapGet(m, k)][2]

\* insert: a new key is appended, an existing key keeps its place and
\* gets the new value
MapInsert(m, k, v) ==
    IF MapHas(m, k)
    THEN [i \in 1..Len(m) |-> IF m[i][1] = k THEN <<k, v>> ELSE m[i]]
    ELSE Append(m, <<k, v>>)

-----------------------------------------------------------------------------
(* generate_wire_name, lines 64-81: the two-sided naming helper (not called *)
(* by generate_module_decl)                                                 *)

generate_wire_name(input, output) ==
    IF input.mod_name = None THEN input.port_name
    ELSE IF output.mod_name = None THEN output.port_name
    ELSE input.mod_name[1] \o "_" \o input.port_name \o "_"
             \o output.mod_name[1] \o "_" \o output.port_name

-----------------------------------------------------------------------------
(* The resolver, lines 158-193.  r is [wires, port_to_wire, assigns].      *)

\* mutant of ConnIfaceIface: a wire is declared for the connection too
ConnIfaceIface_WithWire(r, c) ==
    [r EXCEPT !.wires = Append(@, <<generate_wire_name(c.src, c.dst), c.bits>>),
              !.assigns = Append(@, <<c.dst.port_name, c.src.port_name>>)]

\* (None, None), lines 160-163
ConnIfaceIface(r, c) ==
    [r EXCEPT !.assigns = Append(@, <<c.dst.port_name, c.src.port_name>>)]

\* mutant of ConnInstIface: the wire is named by generate_wire_name
ConnInstIface_TwoSided(r, c) ==
    LET wire_name == generate_wire_name(c.src, c.dst) IN
    [wires        |-> Append(r.wires, <<wire_name, c.bits>>),
     port_to_wire |-> MapInsert(r.port_to_wire, c.src, <<wire_name, c.bits>>),
     assigns      |-> Append(r.assigns, <<c.dst.port_name, wire_name>>)]

\* (Some(mod_name), None), lines 164-170
ConnInstIface(r, c) ==
    LET wire_name == WireName(c.src.mod_name[1], c.src.port_name) IN
    [wires        |-> Append(r.wires, <<wire_name, c.bits>>),
     port_to_wire |-> MapInsert(r.port_to_wire, c.src, <<wire_name, c.bits>>),
     assigns      |-> Append(r.assigns, <<c.dst.port_name, wire_name>>)]

\* (None, Some(mod_name)), lines 171-177
ConnIfaceInst(r, c) ==
    LET wire_name == WireName(c.dst.mod_name[1], c.dst.port_name) IN
    [wires        |-> Append(r.wires, <<wire_name, c.bits>>),
     port_to_wire |-> MapInsert(r.port_to_wire, c.dst, <<wire_name, c.bits>>),
     assigns      |-> Append(r.assigns, <<wire_name, c.src.port_name>>)]

\* (Some(src_mod_name), Some(dst_mod_name)), lines 178-191: the source
\* wire is pushed twice, the destination wire is never pushed
ConnInstInst(r, c) ==
    LET src_wire_name == WireName(c.src.mod_name[1], c.src.port_name)
        dst_wire_name == WireName(c.dst.mod_name[1], c.dst.port_name)
    IN
    [wires        |-> Append(Append(r.wires, <<src_wire_name, c.bits>>),
                             <<src_wire_name, c.bits>>),
     port_to_wire |-> MapInsert(MapInsert(r.port_to_wire,
                                          c.src, <<src_wire_name, c.bits>>),
                                c.dst, <<dst_wire_name, c.bits>>),
     assigns      |-> Append(r.assigns, <<dst_wire_name, src_wire_name>>)]

ResolveConn(r, c) ==
    CASE c.src.mod_name = None /\ c.dst.mod_name = None -> ConnIfaceIface(r, c)
      [] c.src.mod_name # None /\ c.dst.mod_name = None -> ConnInstIface(r, c)
      [] c.src.mod_name = None /\ c.dst.mod_name # None -> ConnIfaceInst(r, c)
      [] c.src.mod_name # None /\ c.dst.mod_name # None -> ConnInstInst(r, c)

-----------------------------------------------------------------------------
(* Instance lines, lines 209-226 *)

\* mutant of LookupWire: a port without a wire is bound to its own name
LookupWire_OrPortName(p2w, loc) ==
    IF MapHas(p2w, loc) THEN <<MapValue(p2w, loc)[1]>> ELSE <<loc.port_name>>

\* port_to_wire.get(&loc): <<>> or <<wire_name>>
LookupWire(p2w, loc) ==
    IF MapHas(p2w, loc) THEN <<MapValue(p2w, loc)[1]>> ELSE <<>>

InstanceLoc(name, m, i) == VPortLoc(Some(name), get_interfaces(m)[i][1])

\* the ports of instance `name` for which the lookup fails
Unresolved(name, m, p2w) ==
    {i \in 1..Len(get_interfaces(m)) :
        LookupWire(p2w, InstanceLoc(name, m, i)) = <<>>}

FirstUnresolved(name, m, p2w) ==
    CHOOSE i \in Unresolved(name, m, p2w) :
        \A j \in Unresolved(name, m, p2w) : i <= j

InstanceArgs(name, m, p2w) ==
    Join([i \in 1..Len(get_interfaces(m)) |->
             LookupWire(p2w, InstanceLoc(name, m, i))[1]], ", ")

InstanceText(name, m, p2w) ==
    get_name(m) \o " " \o name \o " (" \o InstanceArgs(name, m, p2w) \o "));\n"

\* {:?} of a String (the names of the model need no escaping)
DebugStr(str) == "\"" \o str \o "\""

\* {:?} of VPortLoc
DebugLoc(loc) ==
    "VPortLoc { mod_name: "
        \o (IF loc.mod_name = None THEN "None"
            ELSE "Some(" \o DebugStr(loc.mod_name[1]) \o ")")
        \o ", port_name: " \o DebugStr(loc.port_name) \o " }"

UnresolvedMsg(loc) == "The port loc " \o DebugLoc(loc) \o " is not found"

ExternalMsg == "generate_module_decl accepts only Internal module"

\* mutant of MatchVmod: the variant is tested after the module line is out
MatchVmod_HeaderFirst(m, stream) ==
    CASE m.kind = "External" ->
            [pc |-> "panicked",
             defs |-> Genln(stream, 0, "module " \o m.name \o " ("),
             panic |-> <<ExternalMsg>>]
      [] m.kind = "Internal" ->
            [pc |-> "module_line", defs |-> stream, panic |-> <<>>]

\* match vmod, lines 109-116: where the call goes and what it has written
MatchVmod(m, stream) ==
    CASE m.kind = "External" ->
            [pc |-> "panicked", defs |-> stream, panic |-> <<ExternalMsg>>]
      [] m.kind = "Internal" ->
            [pc |-> "module_line", defs |-> stream, panic |-> <<>>]

-----------------------------------------------------------------------------
(* The module trees the caller may hand in *)

DFlipFlop ==
    External("d_flip_flop", 8,
             << <<"in", VPort("Input", 8)>>, <<"out", VPort("Output", 8)>> >>)

SubModule ==
    Internal("sub", << <<"in", VPort("Input", 1)>> >>, <<>>, <<>>)

PortA == <<"a", VPort("Input", 1)>>
PortB == <<"b", VPort("Output", 8)>>

IfaceChoices == { <<PortA, PortB>>, <<PortB, PortA>> }

InstChoices ==
    { << <<"D", DFlipFlop>>, <<"E", SubModule>> >>,
      << <<"E", SubModule>>, <<"D", DFlipFlop>> >>,
      << <<"D", DFlipFlop>> >> }

SrcLocs == { VPortLoc(None, "a"), VPortLoc(Some("D"), "out") }
DstLocs == { VPortLoc(None, "b"), VPortLoc(Some("D"), "in"),
             VPortLoc(Some("E"), "in") }
BitsChoices == {1, 8}

ConnUniverse ==
    { VConn(s, d, b) : s \in SrcLocs, d \in DstLocs, b \in BitsChoices }

ConnSeqs == UNION { [1..n -> ConnUniverse] : n \in 0..MaxConns }

InternalTrees ==
    { Internal("seq", ifs, insts, conns) :
        ifs \in IfaceChoices, insts \in InstChoices, conns \in ConnSeqs }

ExternalTrees == { DFlipFlop, External("prim", 1, <<>>) }

TreeUniverse == InternalTrees \cup ExternalTrees

\* the connections in another order: each moves one place to the front,
\* the first becomes the last
RotateLeft(conns) ==
    [j \in 1..Len(conns) |-> conns[(j % Len(conns)) + 1]]

\* the trees that differ from m in the order of the connections alone
Permuted(m) ==
    IF Len(m.connections) < 2 THEN {}
    ELSE { [m EXCEPT !.connections = RotateLeft(@)] }

-----------------------------------------------------------------------------
(* The state machine *)

Init ==
    /\ vmod \in TreeUniverse
    /\ defs = <<>>
    /\ cur_tab = 0
    /\ wires = <<>>
    /\ port_to_wire = <<>>
    /\ assigns = <<>>
    /\ pc = "idle"
    /\ idx = 0
    /\ panic = <<>>
    /\ prev = <<>>

Finished == pc \in {"done", "panicked"}

\* mutant of Start: the indentation counter outlives the call
Start_KeepTab(t) ==
    /\ pc = "idle" \/ Finished
    /\ LET m == MatchVmod(t, <<>>) IN
        /\ pc' = m.pc
        /\ defs' = m.defs
        /\ panic' = m.panic
    /\ vmod' = t
    /\ idx' = 0
    /\ prev' = IF Finished
               THEN << [vmod |-> vmod, defs |-> defs, panic |-> panic] >>
               ELSE prev
    /\ UNCHANGED <<cur_tab, wires, port_to_wire, assigns>>

\* the caller calls generate_module_decl(&t, &mut fresh sink): lines 83-116.
\* t is the tree it holds, or that tree with its connections reordered.
Start(t) ==
    /\ pc = "idle" \/ Finished
    /\ LET m == MatchVmod(t, <<>>) IN
        /\ pc' = m.pc
        /\ defs' = m.defs
        /\ panic' = m.panic
    /\ vmod' = t
    /\ cur_tab' = 0
    /\ idx' = 0
    /\ prev' = IF Finished
               THEN << [vmod |-> vmod, defs |-> defs, panic |-> panic] >>
               ELSE prev
    /\ UNCHANGED <<wires, port_to_wire, assigns>>

Call == Start(vmod)

CallPermuted == Finished /\ \E t \in Permuted(vmod) : Start(t)

\* line 117
GenModuleLine ==
    /\ pc = "module_line"
    /\ defs' = Genln(defs, cur_tab, "module " \o vmod.name \o " (")
    /\ pc' = "open_args"
    /\ UNCHANGED <<vmod, cur_tab, wires, port_to_wire, assigns, idx, panic,
                   prev>>

\* open_scope, lines 86-88, called at lines 119 and 131
OpenScope ==
    /\ pc \in {"open_args", "open_body"}
    /\ cur_tab' = cur_tab + 4
    /\ pc' = IF pc = "open_args" THEN "args_line" ELSE "port_decls"
    /\ idx' = 1
    /\ UNCHANGED <<vmod, defs, wires, port_to_wire, assigns, panic, prev>>

\* lines 120-125
GenArgsLine ==
    /\ pc = "args_line"
    /\ defs' = Genln(defs, cur_tab, HeaderArgs(vmod.interfaces))
    /\ pc' = "close_args"
    /\ UNCHANGED <<vmod, cur_tab, wires, port_to_wire, assigns, idx, panic,
                   prev>>

\* close_scope, lines 90-92, called at lines 126 and 228
CloseScope ==
    /\ pc \in {"close_args", "close_body"}
    /\ cur_tab' = cur_tab - 4
    /\ pc' = IF pc = "close_args" THEN "rparen_line" ELSE "footer"
    /\ UNCHANGED <<vmod, defs, wires, port_to_wire, assigns, idx, panic, prev>>

\* line 128
GenRparenLine ==
    /\ pc = "rparen_line"
    /\ defs' = Genln(defs, cur_tab, ");")
    /\ pc' = "open_body"
    /\ UNCHANGED <<vmod, cur_tab, wires, port_to_wire, assigns, idx, panic,
                   prev>>

\* one turn of the loop of lines 134-148
GenPortDecl ==
    /\ pc = "port_decls"
    /\ idx <= Len(vmod.interfaces)
    /\ defs' = Genln(defs, cur_tab,
                     PortDeclText(vmod.interfaces[idx][1], vmod.interfaces[idx][2]))
    /\ idx' = idx + 1
    /\ UNCHANGED <<vmod, cur_tab, wires, port_to_wire, assigns, pc, panic,
                   prev>>

\* mutant of CreateLocals: the three collections outlive the call
CreateLocals_Stale ==
    /\ pc = "port_decls"
    /\ idx > Len(vmod.interfaces)
    /\ pc' = "resolve"
    /\ idx' = 1
    /\ UNCHANGED <<vmod, defs, cur_tab, wires, port_to_wire, assigns,
                   panic, prev>>

\* the loop of lines 134-148 ends; lines 152-156 create the three locals
CreateLocals ==
    /\ pc = "port_decls"
    /\ idx > Len(vmod.interfaces)
    /\ wires' = <<>>
    /\ port_to_wire' = <<>>
    /\ assigns' = <<>>
    /\ pc' = "resolve"
    /\ idx' = 1
    /\ UNCHANGED <<vmod, defs, cur_tab, panic, prev>>

\* one turn of the loop of lines 158-193
ResolveStep ==
    /\ pc = "resolve"
    /\ idx <= Len(vmod.connections)
    /\ LET r == ResolveConn([wires |-> wires, port_to_wire |-> port_to_wire,
                             assigns |-> assigns], vmod.connections[idx])
       IN /\ wires' = r.wires
          /\ port_to_wire' = r.port_to_wire
          /\ assigns' = r.assigns
    /\ idx' = idx + 1
    /\ UNCHANGED <<vmod, defs, cur_tab, pc, panic, prev>>

EndResolve ==
    /\ pc = "resolve"
    /\ idx > Len(vmod.connections)
    /\ pc' = "wire_decls"
    /\ idx' = 1
    /\ UNCHANGED <<vmod, defs, cur_tab, wires, port_to_wire, assigns,
                   panic, prev>>

\* one turn of the loop of lines 195-203
GenWireDecl ==
    /\ pc = "wire_decls"
    /\ idx <= Len(wires)
    /\ defs' = Genln(defs, cur_tab, WireDeclText(wires[idx]))
    /\ idx' = idx + 1
    /\ UNCHANGED <<vmod, cur_tab, wires, port_to_wire, assigns, pc, panic,
                   prev>>

EndWireDecls ==
    /\ pc = "wire_decls"
    /\ idx > Len(wires)
    /\ pc' = "assign_lines"
    /\ idx' = 1
    /\ UNCHANGED <<vmod, defs, cur_tab, wires, port_to_wire, assigns,
                   panic, prev>>

\* one turn of the loop of lines 205-207
GenAssign ==
    /\ pc = "assign_lines"
    /\ idx <= Len(assigns)
    /\ defs' = Genln(defs, cur_tab, AssignText(assigns[idx]))
    /\ idx' = idx + 1
    /\ UNCHANGED <<vmod, cur_tab, wires, port_to_wire, assigns, pc, panic,
                   prev>>

EndAssigns ==
    /\ pc = "assign_lines"
    /\ idx > Len(assigns)
    /\ pc' = "instances"
    /\ idx' = 1
    /\ UNCHANGED <<vmod, defs, cur_tab, wires, port_to_wire, assigns,
                   panic, prev>>

\* one turn of the loop of lines 209-226, every port of the instance found
GenInstance ==
    /\ pc = "instances"
    /\ idx <= Len(vmod.internals)
    /\ LET name == vmod.internals[idx][1]
           m    == vmod.internals[idx][2]
       IN /\ Unresolved(name, m, port_to_wire) = {}
          /\ defs' = Genln(defs, cur_tab, InstanceText(name, m, port_to_wire))
    /\ idx' = idx + 1
    /\ UNCHANGED <<vmod, cur_tab, wires, port_to_wire, assigns, pc, panic,
                   prev>>

\* the expect() of line 219 panics at the first port that is not in the map
PanicInstance ==
    /\ pc = "instances"
    /\ idx <= Len(vmod.internals)
    /\ LET name == vmod.internals[idx][1]
           m    == vmod.internals[idx][2]
       IN /\ Unresolved(name, m, port_to_wire) # {}
          /\ panic' = << UnresolvedMsg(
                 InstanceLoc(name, m, FirstUnresolved(name, m, port_to_wire))) >>
    /\ pc' = "panicked"
    /\ UNCHANGED <<vmod, defs, cur_tab, wires, port_to_wire, assigns, idx,
                   prev>>

EndInstances ==
    /\ pc = "instances"
    /\ idx > Len(vmod.internals)
    /\ pc' = "close_body"
    /\ UNCHANGED <<vmod, defs, cur_tab, wires, port_to_wire, assigns, idx,
                   panic, prev>>

\* line 231, then the call returns
GenFooter ==
    /\ pc = "footer"
    /\ defs' = Genln(defs, cur_tab, "endmodule")
    /\ pc' = "done"
    /\ UNCHANGED <<vmod, cur_tab, wires, port_to_wire, assigns, idx, panic,
                   prev>>

Next ==
    \/ Call
    \/ CallPermuted
    \/ GenModuleLine
    \/ OpenScope
    \/ GenArgsLine
    \/ CloseScope
    \/ GenRparenLine
    \/ GenPortDecl
    \/ CreateLocals
    \/ ResolveStep
    \/ EndResolve
    \/ GenWireDecl
    \/ EndWireDecls
    \/ GenAssign
    \/ EndAssigns
    \/ GenInstance
    \/ PanicInstance
    \/ EndInstances
    \/ GenFooter

Spec == Init /\ [][Next]_vars

-----------------------------------------------------------------------------
(* Vocabulary of the properties *)

IsInst(loc) == loc.mod_name # None

\* the single-sided name of an endpoint: "m_p" for an instance port, the
\* port name itself for an interface port
EndpointName(loc) ==
    IF IsInst(loc) THEN loc.mod_name[1] \o "_" \o loc.port_name
    ELSE loc.port_name

IsInternalCall == vmod.kind = "Internal" /\ pc # "idle"

AfterResolve ==
    \/ pc \in {"wire_decls", "assign_lines", "instances", "close_body",
               "footer", "done"}
    \/ pc = "panicked" /\ vmod.kind = "Internal"

AfterWireDecls ==
    \/ pc \in {"assign_lines", "instances", "close_body", "footer", "done"}
    \/ pc = "panicked" /\ vmod.kind = "Internal"

\* how many connections the running call has resolved
NProcessed ==
    IF pc = "resolve" THEN idx - 1
    ELSE IF AfterResolve THEN Len(vmod.connections)
    ELSE 0

\* how many instance lines the running call has written
NInstLines ==
    IF pc \in {"instances", "panicked"} /\ vmod.kind = "Internal" THEN idx - 1
    ELSE IF pc \in {"close_body", "footer", "done"} THEN Len(vmod.internals)
    ELSE 0

NPorts == Len(vmod.interfaces)

\* where the sections of the output start (the line before the first one)
WireBase == 3 + NPorts
AssignBase == WireBase + Len(wires)
InstBase == AssignBase + Len(assigns)

WireNames == {wires[i][1] : i \in 1..Len(wires)}

\* the wires one connection asks for: one per instance endpoint
WireCount(c) ==
    (IF IsInst(c.src) THEN 1 ELSE 0) + (IF IsInst(c.dst) THEN 1 ELSE 0)

RECURSIVE WiresUpTo(_, _)
WiresUpTo(conns, j) ==
    IF j = 0 THEN 0 ELSE WiresUpTo(conns, j - 1) + WireCount(conns[j])

\* the connection whose turn of the loop pushed wires[i]
Creator(conns, i) ==
    CHOOSE j \in 1..Len(conns) :
        WiresUpTo(conns, j - 1) < i /\ i <= WiresUpTo(conns, j)

\* the last of the first n connections that touches instance port loc
LastTouching(conns, n, loc) ==
    CHOOSE j \in 1..n :
        /\ loc \in {conns[j].src, conns[j].dst}
        /\ \A k \in (j + 1)..n : loc \notin {conns[k].src, conns[k].dst}

InstEndpoints(conns, n) ==
    {loc \in UNION {{conns[j].src, conns[j].dst} : j \in 1..n} : IsInst(loc)}

HasPort(m, port_name) ==
    \E i \in 1..Len(m.interfaces) : m.interfaces[i][1] = port_name

\* the data-model invariants on connections: every endpoint names a port
\* that exists (instance names are unique by construction of the map)
WellFormed(m) ==
    \A j \in 1..Len(m.connections) :
        \A loc \in {m.connections[j].src, m.connections[j].dst} :
            IF IsInst(loc)
            THEN \E i \in 1..Len(m.internals) :
                    /\ m.internals[i][1] = loc.mod_name[1]
                    /\ HasPort(m.internals[i][2], loc.port_name)
            ELSE HasPort(m, loc.port_name)

Count(seq, x) == Cardinality({i \in 1..Len(seq) : seq[i] = x})

SameElements(s, t) ==
    /\ Len(s) = Len(t)
    /\ \A i \in 1..Len(s) : Count(s, s[i]) = Count(t, s[i])

-----------------------------------------------------------------------------
(* C1: for every connection from instance port (m1, p1) to instance port   *)
(* (m2, p2) that the resolver has processed, wires "m1_p1" and "m2_p2" are *)
(* both declared with the connection's bits, the map sends the source to   *)
(* "m1_p1" and the destination to "m2_p2", the connection's assignment is  *)
(* "m2_p2 = m1_p1", and every wire named by the map or by an assignment of *)
(* such a connection is a declared wire.                                   *)
C1_InstInstDeclaresBothWires ==
    IsInternalCall =>
        \A j \in 1..NProcessed :
            LET c  == vmod.connections[j]
                sw == c.src.mod_name[1] \o "_" \o c.src.port_name
                dw == c.dst.mod_name[1] \o "_" \o c.dst.port_name
            IN  (IsInst(c.src) /\ IsInst(c.dst)) =>
                    /\ \E i \in 1..Len(wires) : wires[i] = <<sw, c.bits>>
                    /\ \E i \in 1..Len(wires) : wires[i] = <<dw, c.bits>>
                    /\ MapHas(port_to_wire, c.src)
                    /\ MapValue(port_to_wire, c.src)[1] = sw
                    /\ MapHas(port_to_wire, c.dst)
                    /\ MapValue(port_to_wire, c.dst)[1] = dw
                    /\ Len(assigns) = NProcessed
                    /\ assigns[j] = <<dw, sw>>
                    /\ {sw, dw} \subseteq WireNames

(* C10: once the wires of a well-formed module are declared, no wire name  *)
(* is declared twice and there are as many declarations as distinct        *)
(* instance ports among the connection endpoints.                          *)
C10_WireNamesUnique ==
    (IsInternalCall /\ AfterWireDecls /\ WellFormed(vmod)) =>
        /\ \A i, k \in 1..Len(wires) : wires[i][1] = wires[k][1] => i = k
        /\ Len(wires) =
              Cardinality(InstEndpoints(vmod.connections, Len(vmod.connections)))

(* C3: a call on an External module panics with the invalid-usage message  *)
(* and has written nothing to the sink.                                    *)
C3_ExternalRejected ==
    (vmod.kind = "External" /\ pc # "idle") =>
        /\ pc = "panicked"
        /\ panic = << "generate_module_decl accepts only Internal module" >>
        /\ defs = <<>>

C3_Witness ==
    /\ vmod.kind = "External"
    /\ vmod.interfaces # <<>>
    /\ pc = "panicked"
    /\ prev # <<>>

(* C4: resolving an interface-to-interface connection leaves the wire list *)
(* and the port-to-wire map as they are and appends the one assignment     *)
(* (destination port name, source port name).                              *)
C4_IfaceIfaceNoWire ==
    [][ (/\ pc = "resolve"
         /\ idx <= Len(vmod.connections)
         /\ ~IsInst(vmod.connections[idx].src)
         /\ ~IsInst(vmod.connections[idx].dst))
        => /\ wires' = wires
           /\ port_to_wire' = port_to_wire
           /\ assigns' = Append(assigns, << vmod.connections[idx].dst.port_name,
                                            vmod.connections[idx].src.port_name >>)
      ]_vars

C4_Witness ==
    /\ pc = "resolve"
    /\ idx = 3
    /\ IsInst(vmod.connections[1].src)
    /\ ~IsInst(vmod.connections[2].src)
    /\ ~IsInst(vmod.connections[2].dst)
    /\ Len(wires) = 1
    /\ Len(assigns) = 2

(* C5: resolving a connection with exactly one instance endpoint (m, p)    *)
(* and interface endpoint q appends the one wire ("m_p", bits), maps       *)
(* (m, p) to it and leaves the other keys alone, and appends the one       *)
(* assignment: (q, "m_p") when the instance is the source, ("m_p", q) when *)
(* it is the destination.                                                  *)
C5_OneInstanceEndpoint ==
    [][ (/\ pc = "resolve"
         /\ idx <= Len(vmod.connections)
         /\ IsInst(vmod.connections[idx].src) # IsInst(vmod.connections[idx].dst))
        => LET c    == vmod.connections[idx]
               inst == IF IsInst(c.src) THEN c.src ELSE c.dst
               q    == IF IsInst(c.src) THEN c.dst.port_name ELSE c.src.port_name
               w    == inst.mod_name[1] \o "_" \o inst.port_name
           IN  /\ wires' = Append(wires, <<w, c.bits>>)
               /\ MapKeys(port_to_wire') = MapKeys(port_to_wire) \cup {inst}
               /\ MapValue(port_to_wire', inst) = <<w, c.bits>>
               /\ \A k \in MapKeys(port_to_wire) \ {inst} :
                     MapValue(port_to_wire', k) = MapValue(port_to_wire, k)
               /\ assigns' = Append(assigns,
                                    IF IsInst(c.src) THEN <<q, w>> ELSE <<w, q>>)
      ]_vars

C5_Witness ==
    /\ pc = "resolve"
    /\ idx = 3
    /\ IsInst(vmod.connections[1].src) /\ ~IsInst(vmod.connections[1].dst)
    /\ ~IsInst(vmod.connections[2].src) /\ IsInst(vmod.connections[2].dst)
    /\ wires = << <<"D_out", vmod.connections[1].bits>>,
                  <<"D_in", vmod.connections[2].bits>> >>
    /\ assigns = << <<"b", "D_out">>, <<"D_in", "a">> >>

-----------------------------------------------------------------------------
\* the bit-range as the documentation words it: none for width 1,
\* [w-1:0] for a width w > 1
RangeSuffix(w) == IF w = 1 THEN "" ELSE "[" \o ToString(w - 1) \o ":0]"

InInstancePhase ==
    \/ pc \in {"instances", "close_body", "footer", "done"}
    \/ pc = "panicked" /\ vmod.kind = "Internal"

PortLocOf(i, k) ==
    VPortLoc(<< vmod.internals[i][1] >>, vmod.internals[i][2].interfaces[k][1])

(* C2: every instance line written binds each port of the instance, in the *)
(* instance's interface order, to the wire the map holds for (instance     *)
(* name, port name), all of which are keys of the map; a call that stops   *)
(* in the instance loop has panicked at the first port of the current      *)
(* instance that is no key of the map, with a message naming the instance  *)
(* and the port, and has written no line for that instance.                *)
C2_InstancePortsResolved ==
    (IsInternalCall /\ InInstancePhase) =>
        /\ \A i \in 1..NInstLines :
              LET ports == vmod.internals[i][2].interfaces IN
              /\ \A k \in 1..Len(ports) : PortLocOf(i, k) \in MapKeys(port_to_wire)
              /\ defs[InstBase + i].text =
                    vmod.internals[i][2].name \o " " \o vmod.internals[i][1] \o " ("
                    \o Join([k \in 1..Len(ports) |->
                                MapValue(port_to_wire, PortLocOf(i, k))[1]], ", ")
                    \o "));\n"
        /\ Len(defs) = InstBase + NInstLines + (IF pc = "done" THEN 1 ELSE 0)
        /\ pc = "panicked" =>
              \E k \in 1..Len(vmod.internals[idx][2].interfaces) :
                 /\ PortLocOf(idx, k) \notin MapKeys(port_to_wire)
                 /\ \A h \in 1..(k - 1) : PortLocOf(idx, h) \in MapKeys(port_to_wire)
                 /\ panic = << "The port loc VPortLoc { mod_name: Some(\""
                               \o vmod.internals[idx][1] \o "\"), port_name: \""
                               \o vmod.internals[idx][2].interfaces[k][1]
                               \o "\" } is not found" >>
        /\ pc # "panicked" => panic = <<>>

C2_Witness ==
    /\ vmod.kind = "Internal"
    /\ pc = "panicked"
    /\ idx = 2
    /\ Len(defs) = InstBase + 1
    /\ defs[InstBase + 1].text = "d_flip_flop D (D_in, D_out));\n"
    /\ panic = << "The port loc VPortLoc { mod_name: Some(\"E\"), port_name: \"in\" } is not found" >>

(* C6: a finished render is the header (module line, the port names in     *)
(* interface order, the closing line), one declaration per interface port  *)
(* in that order, the wire declarations in the order of the connections    *)
(* that made them, one assignment per connection in connection order, one  *)
(* line per instance in instance order with its wires in the instance's    *)
(* interface order, and the footer; and a render of the same module with   *)
(* its connections permuted differs from it only in the order of the wire  *)
(* declarations and of the assignments.                                    *)
C6_Layout ==
    (pc = "done") =>
        LET conns == vmod.connections IN
        /\ Len(defs) = InstBase + Len(vmod.internals) + 1
        /\ defs[1].text = "module " \o vmod.name \o " ("
        /\ defs[2].text = Join([i \in 1..NPorts |-> vmod.interfaces[i][1]], ", ")
        /\ defs[3].text = ");"
        /\ \A i \in 1..NPorts :
              defs[3 + i].text =
                 (IF vmod.interfaces[i][2].polarity = "Input" THEN "input" ELSE "output")
                 \o " " \o RangeSuffix(vmod.interfaces[i][2].bits)
                 \o " " \o vmod.interfaces[i][1] \o ";"
        /\ Len(wires) = WiresUpTo(conns, Len(conns))
        /\ \A i \in 1..Len(wires) :
              LET c == conns[Creator(conns, i)] IN
              /\ wires[i][1] \in {EndpointName(loc) : loc \in {l \in {c.src, c.dst} : IsInst(l)}}
              /\ defs[WireBase + i].text =
                    "wire " \o RangeSuffix(c.bits) \o " " \o wires[i][1] \o ";"
        /\ Len(assigns) = Len(conns)
        /\ \A j \in 1..Len(conns) :
              defs[AssignBase + j].text =
                 "assign " \o EndpointName(conns[j].dst) \o " = "
                 \o EndpointName(conns[j].src) \o ";"
        /\ \A i \in 1..Len(vmod.internals) :
              defs[InstBase + i].text =
                 vmod.internals[i][2].name \o " " \o vmod.internals[i][1] \o " ("
                 \o Join([k \in 1..Len(vmod.internals[i][2].interfaces) |->
                             EndpointName(PortLocOf(i, k))], ", ")
                 \o "));\n"
        /\ defs[Len(defs)].text = "endmodule"

PermutationOf(m1, m2) ==
    /\ [m1 EXCEPT !.connections = <<>>] = [m2 EXCEPT !.connections = <<>>]
    /\ SameElements(m1.connections, m2.connections)

C6_Permutation ==
    (/\ Finished
     /\ vmod.kind = "Internal"
     /\ prev # <<>>
     /\ PermutationOf(prev[1].vmod, vmod)) =>
        LET old == prev[1].defs IN
        /\ panic = prev[1].panic
        /\ Len(defs) = Len(old)
        /\ \A i \in 1..Len(defs) :
              (i <= WireBase \/ i > InstBase) => defs[i] = old[i]
        /\ SameElements(SubSeq(defs, WireBase + 1, AssignBase),
                        SubSeq(old, WireBase + 1, AssignBase))
        /\ SameElements(SubSeq(defs, AssignBase + 1, InstBase),
                        SubSeq(old, AssignBase + 1, InstBase))

(* C6: the output of a successful render has the layout above, in the    *)
(* insertion order of the interface and the instances and the processing   *)
(* order of the connections, and permuting the connections changes only    *)
(* the order of the wire declarations and of the assignments.              *)
C6_OrderPreserved == C6_Layout /\ C6_Permutation

C6_Witness ==
    /\ pc = "done"
    /\ prev # <<>>
    /\ prev[1].vmod # vmod
    /\ prev[1].defs # defs
    /\ Len(vmod.internals) = 2
    /\ vmod.interfaces[1][1] = "b"
    /\ vmod.internals[1][1] = "E"
    /\ Len(wires) = 3

-----------------------------------------------------------------------------
\* the lines of each kind the running call has written so far
NPortLines ==
    IF pc = "port_decls" THEN idx - 1
    ELSE IF pc = "resolve" \/ AfterResolve THEN NPorts
    ELSE 0

NWireLines ==
    IF pc = "wire_decls" THEN idx - 1
    ELSE IF AfterWireDecls THEN Len(wires)
    ELSE 0

\* the wires pushed so far carry the bits of the connection that pushed
\* them, and every declaration written so far, of a port or of a wire,
\* renders its width as RangeSuffix
WidthsRendered ==
    /\ \A i \in 1..NPortLines :
          defs[3 + i].text =
             (IF vmod.interfaces[i][2].polarity = "Input" THEN "input" ELSE "output")
             \o " " \o RangeSuffix(vmod.interfaces[i][2].bits)
             \o " " \o vmod.interfaces[i][1] \o ";"
    /\ (pc = "resolve" \/ AfterResolve) =>
          /\ Len(wires) = WiresUpTo(vmod.connections, NProcessed)
          /\ \A i \in 1..Len(wires) :
                wires[i][2] = vmod.connections[Creator(vmod.connections, i)].bits
    /\ \A i \in 1..NWireLines :
          defs[WireBase + i].text =
             "wire " \o RangeSuffix(wires[i][2]) \o " " \o wires[i][1] \o ";"

(* C7 as claimed: every wire carries the bits of the connection that made  *)
(* it, the map stores the same bits for that wire, and widths are rendered *)
(* as no suffix for 1 and [w-1:0] for w > 1, for wires and ports alike.    *)
C7_MapKeepsWireBits ==
    IsInternalCall =>
        /\ WidthsRendered
        /\ (pc = "resolve" \/ AfterResolve) =>
              \A i \in 1..Len(wires) :
                 \A k \in MapKeys(port_to_wire) :
                    MapValue(port_to_wire, k)[1] = wires[i][1]
                       => MapValue(port_to_wire, k)[2] = wires[i][2]

(* C7 as amended: every wire carries the bits of the connection that made  *)
(* it, widths are rendered as no suffix for 1 and [w-1:0] for w > 1, for   *)
(* wires and ports alike, and the map stores for each instance port its    *)
(* single-sided wire name with the bits of the last connection processed   *)
(* that touches the port.                                                  *)
C7_WireWidths ==
    IsInternalCall =>
        /\ WidthsRendered
        /\ (pc = "resolve" \/ AfterResolve) =>
              /\ MapKeys(port_to_wire) = InstEndpoints(vmod.connections, NProcessed)
              /\ \A k \in MapKeys(port_to_wire) :
                    MapValue(port_to_wire, k) =
                       << EndpointName(k),
                          vmod.connections[
                              LastTouching(vmod.connections, NProcessed, k)].bits >>

C7_Witness ==
    /\ pc = "done"
    /\ Len(wires) = 3
    /\ defs[WireBase + 1].text = "wire  D_in;"
    /\ defs[WireBase + 2].text = "wire [7:0] D_out;"
    /\ defs[3 + 1].text = "output [7:0] b;"
    /\ defs[3 + 2].text = "input  a;"
    /\ MapValue(port_to_wire, VPortLoc(Some("D"), "in")) = <<"D_in", 8>>

(* C8: a call on the tree the previous call rendered ends the way that     *)
(* call ended, with the same output and the same failure; a call starts    *)
(* with indentation 0 and an empty sink, and resolves from an empty wire   *)
(* list, map and assignment list; no step of a call changes the tree.      *)
C8_StartsClean ==
    /\ (Finished /\ prev # <<>> /\ prev[1].vmod = vmod) =>
          /\ defs = prev[1].defs
          /\ panic = prev[1].panic
    /\ (pc = "module_line") => (cur_tab = 0 /\ defs = <<>>)
    /\ (pc = "resolve" /\ idx = 1) =>
          (wires = <<>> /\ port_to_wire = <<>> /\ assigns = <<>>)

(* C8: rendering is a function of the tree: every state of every call     *)
(* satisfies C8_StartsClean (same tree, same output and failure; clean     *)
(* start), and no step of a running call changes the tree.                 *)
C8_Deterministic ==
    /\ []C8_StartsClean
    /\ [][ (pc \notin {"idle", "done", "panicked"}) => vmod' = vmod ]_vars

C8_Witness ==
    /\ pc = "panicked"
    /\ vmod.kind = "Internal"
    /\ prev # <<>>
    /\ prev[1].vmod = vmod
    /\ prev[1].panic # <<>>
    /\ Len(defs) > 6
    /\ Len(wires) = 2

(* C9: the indentation is 0 at the module line, the line closing the port  *)
(* list and the footer, 4 between each open_scope and its close_scope, and *)
(* nothing else; the lines are written at those levels; a call that        *)
(* follows a call aborted inside the body starts again at 0.               *)
C9_Indentation ==
    /\ cur_tab \in {0, 4}
    /\ pc \in {"module_line", "open_args", "rparen_line", "open_body",
               "footer", "done"} => cur_tab = 0
    /\ pc \in {"args_line", "close_args", "port_decls", "resolve", "wire_decls",
               "assign_lines", "instances", "close_body"} => cur_tab = 4
    /\ pc # "idle" =>
          \A i \in 1..Len(defs) :
             defs[i].tab = IF i \in {1, 3} \/ (pc = "done" /\ i = Len(defs))
                           THEN 0 ELSE 4

C9_Witness ==
    /\ pc = "rparen_line"
    /\ cur_tab = 0
    /\ Len(defs) = 2
    /\ defs[2].tab = 4
    /\ prev # <<>>
    /\ prev[1].panic # <<>>
    /\ Len(prev[1].defs) > 3

====
